---- MODULE Spec2Model ----
(***************************************************************************)
(* Model of the invoice pipeline of PhantomPay (src/pipeline.py):          *)
(*   scrape_pdf           text resolution with TXT fallback                *)
(*   parse_invoice_data   the per-field pattern cascade                    *)
(*   convert_pdfs_to_json the batch-convert workflow                       *)
(*   run_pipeline         segregate -> scrape -> upload                    *)
(***************************************************************************)
EXTENDS Integers, Sequences, FiniteSets, TLC

VARIABLES
    PyPDF2,        \* module global: TRUE when the import at lines 15-18 succeeded
    call,          \* the last scrape_pdf call: its inputs and what it did
    fs,            \* the file system: existing directories and files
    pc,            \* position of the running workflow
    workflow,      \* which entry point is running
    pdf_files,     \* the discovered documents, in processing order
    idx,           \* number of documents the loop has finished
    results,       \* the result list of the running workflow
    successful,    \* convert_pdfs_to_json: counter printed as "Successfully converted"
    failed,        \* convert_pdfs_to_json: counter printed as "Failed"
    reported,      \* the counts printed by the summary
    classified,    \* (txt_count, pdf_count) returned by segregate_files
    hist,          \* per processed document: what its environment was
    uploads,       \* the records handed to upload_to_convex, in call order
    text_content,  \* parse_invoice_data: the input text (a sequence of lines)
    invoice_data,  \* parse_invoice_data: the record it returned
    loop,          \* the table loop of parse_invoice_data: lines, i, items
    LIVEKIT_AVAILABLE,   \* call_api: TRUE when the import at lines 17-19 succeeded
    LIVEKIT_URL,         \* call_api: configuration read at import (lines 28-30)
    LIVEKIT_API_KEY,
    LIVEKIT_API_SECRET,
    _livekit_api,        \* call_api: the lazily initialized client handle (line 34)
    sent,                \* call_api: the HTTP requests the last handler sent
    response             \* call_api: the last handler call, its inputs and its response

vars == <<PyPDF2, call, fs, pc, workflow, pdf_files, idx, results, successful,
          failed, reported, classified, hist, uploads, text_content, invoice_data,
          loop, LIVEKIT_AVAILABLE, LIVEKIT_URL, LIVEKIT_API_KEY,
          LIVEKIT_API_SECRET, _livekit_api, sent, response>>

None == "None"

(***************************************************************************)
(* Texts, as scrape_pdf sees them: sequences of characters.                *)
(***************************************************************************)
IsSpace(c) == c = " "

RECURSIVE LStrip(_)
LStrip(s) == IF s # <<>> /\ IsSpace(Head(s)) THEN LStrip(Tail(s)) ELSE s

RECURSIVE RStrip(_)
RStrip(s) ==
    IF s # <<>> /\ IsSpace(s[Len(s)]) THEN RStrip(SubSeq(s, 1, Len(s) - 1)) ELSE s

\* str.strip()
Strip(s) == RStrip(LStrip(s))

\* line 288: not text_content or not text_content.strip()
NoText(t) == t = <<>> \/ Strip(t) = <<>>

\* the texts a PDF or a TXT file may hold: empty, whitespace only, or real text
Texts == {<<>>, <<" ">>, <<"x">>, <<" ", "x">>}

(***************************************************************************)
(* scrape_pdf (lines 275-315)                                              *)
(***************************************************************************)
\* lines 290-296: the candidate TXT locations, in the order they are probed
possible_txt_paths ==
    << "parent/text_data", "parent.parent/text_data",
       "parent.parent.parent/text_data", "with_suffix(.txt)", "data/text_data" >>

\* line 308: the slice of possible_txt_paths the error message prints
TriedShown == 3

Locations == {possible_txt_paths[i] : i \in 1..Len(possible_txt_paths)}

\* what a candidate location holds: nothing, a file that cannot be read
\* (open or decode raises), or a readable text
Missing == [kind |-> "missing", text |-> <<>>]
Unreadable == [kind |-> "unreadable", text |-> <<>>]
File(t) == [kind |-> "file", text |-> t]
LocStates == {Missing, Unreadable} \cup {File(t) : t \in Texts}

\* what PyPDF2 does with the document: raises, or returns its text
Raises == [raises |-> TRUE, text |-> <<>>]
Extracted(t) == [raises |-> FALSE, text |-> t]
PrimaryOutcomes == {Raises} \cup {Extracted(t) : t \in Texts}

ScrapeEnvs == [primary : PrimaryOutcomes, txt : [Locations -> LocStates]]

\* lines 280-285: text_content after the primary attempt
PrimaryText(py, env) ==
    IF py /\ ~env.primary.raises THEN env.primary.text ELSE <<>>

\* the probing loop without its break: the last candidate that exists wins
RECURSIVE FirstExistingNoBreak(_, _)
FirstExistingNoBreak(env, i) ==
    IF i > Len(possible_txt_paths) THEN 0
    ELSE LET later == FirstExistingNoBreak(env, i + 1)
         IN  IF later # 0 THEN later
             ELSE IF env.txt[possible_txt_paths[i]] # Missing THEN i ELSE 0

\* lines 298-302: index of the first candidate that exists, 0 when none does
RECURSIVE FirstExisting(_, _)
FirstExisting(env, i) ==
    IF i > Len(possible_txt_paths) THEN 0
    ELSE IF env.txt[possible_txt_paths[i]] # Missing THEN i
    ELSE FirstExisting(env, i + 1)

\* lines 298-302: the candidates whose existence was tested
Probed(env) ==
    LET k == FirstExisting(env, 1)
    IN  IF k = 0 THEN possible_txt_paths ELSE SubSeq(possible_txt_paths, 1, k)

\* the outcome of scrape_pdf(pdf) when PyPDF2 is `py` and the world is `env`:
\*   ok      a record was returned
\*   text    the text handed to parse_invoice_data
\*   probed  candidate locations tested with exists(), in order
\*   read    candidate locations opened and read, in order
\*   error   the exception that left scrape_pdf, with the locations it names
ScrapePdf(pdf, py, env) ==
    LET primary == PrimaryText(py, env)
        k == FirstExisting(env, 1)
    IN  IF ~NoText(primary)
        THEN [ok |-> TRUE, text |-> primary, probed |-> <<>>, read |-> <<>>,
              error |-> None, tried |-> <<>>, filename |-> pdf]
        ELSE IF k = 0
        THEN [ok |-> FALSE, text |-> <<>>, probed |-> Probed(env), read |-> <<>>,
              error |-> "ValueError",
              tried |-> SubSeq(possible_txt_paths, 1, TriedShown),
              filename |-> pdf]
        ELSE IF env.txt[possible_txt_paths[k]] = Unreadable
        THEN [ok |-> FALSE, text |-> <<>>, probed |-> Probed(env),
              read |-> <<possible_txt_paths[k]>>,
              error |-> "OSError", tried |-> <<>>, filename |-> pdf]
        ELSE [ok |-> TRUE, text |-> env.txt[possible_txt_paths[k]].text,
              probed |-> Probed(env), read |-> <<possible_txt_paths[k]>>,
              error |-> None, tried |-> <<>>, filename |-> pdf]

NoCall == [made |-> FALSE]

\* one call of scrape_pdf on a document, in any world
Scrape ==
    /\ ~call.made
    /\ \E env \in ScrapeEnvs :
        call' = [made |-> TRUE, env |-> env, out |-> ScrapePdf(1, PyPDF2, env)]
    /\ UNCHANGED <<PyPDF2, fs, pc, workflow, pdf_files, idx, results,
                   successful, failed, reported, classified, hist, uploads,
                   text_content, invoice_data,
                   loop,
                   LIVEKIT_AVAILABLE, LIVEKIT_URL, LIVEKIT_API_KEY,
                   LIVEKIT_API_SECRET, _livekit_api, sent, response>>

(***************************************************************************)
(* The file system seen by segregate_files and the two workflows.          *)
(* A file is [dir, name]; a name is [stem, ext, hidden, isdir].            *)
(***************************************************************************)
MaxStem == 3      \* document stems are 1..MaxStem, in lexicographic order
MaxFiles == 3     \* files present before a run

SRC == "src"                       \* source_dir
DATA_2 == "src/data_2"             \* line 34
TEXT_DATA == "src/data_2/text_data" \* line 35
JSON_OUT == "src/data_2/json_output" \* line 351
DATA == "src/data"                 \* line 447
NESTED == "src/data/data"          \* line 452
SUB == "src/sub"                   \* a subdirectory of source_dir

Stems == 1..MaxStem
Exts == {"pdf", "PDF", "txt", "csv", "json"}
Names == [stem : Stems, ext : Exts, hidden : BOOLEAN, isdir : BOOLEAN]

PlainName(s, x) == [stem |-> s, ext |-> x, hidden |-> FALSE, isdir |-> FALSE]

\* the files a run may find: anything at the source top level, PDFs left in
\* the archive folders by earlier runs
FileUniverse ==
    {[dir |-> SRC, name |-> PlainName(s, x)] :
        s \in Stems, x \in {"pdf", "PDF", "txt", "csv"}}
    \cup {[dir |-> d, name |-> PlainName(s, "pdf")] :
             d \in {DATA_2, DATA, NESTED}, s \in Stems}

ParentDir(d) ==
    CASE d = DATA_2 -> SRC
      [] d = TEXT_DATA -> DATA_2
      [] d = JSON_OUT -> DATA_2
      [] d = DATA -> SRC
      [] d = NESTED -> DATA
      [] d = SUB -> SRC
      [] OTHER -> d

RECURSIVE Ancestors(_)
Ancestors(d) == IF ParentDir(d) = d THEN {d} ELSE {d} \cup Ancestors(ParentDir(d))

\* the subsets of S with at most k elements
RECURSIVE SubsetsUpTo(_, _)
SubsetsUpTo(S, k) ==
    IF k = 0 THEN {{}}
    ELSE LET P == SubsetsUpTo(S, k - 1)
         IN  P \cup {T \cup {x} : T \in P, x \in S}

\* the file systems a run may start from: the source directory missing, or
\* present with some of the archive folders and at most MaxFiles files
FileSystems ==
    {[dirs |-> D \cup UNION {Ancestors(f.dir) : f \in F}, files |-> F] :
        D \in {{SRC}, {SRC, DATA_2}, {SRC, DATA, NESTED}},
        F \in SubsetsUpTo(FileUniverse, MaxFiles)}
    \cup {[dirs |-> {}, files |-> {}]}

\* Path.exists() of a directory
Exists(f, d) == d \in f.dirs

\* Path.mkdir(exist_ok=True)
Mkdir(f, d) == [f EXCEPT !.dirs = @ \cup {d}]

\* str.lower() on a suffix
Lower(x) == CASE x = "PDF" -> "pdf" [] OTHER -> x

\* Path.glob("*.pdf"): every entry of d whose name ends in .pdf
Glob(f, d) == {e \in f.files : e.dir = d /\ e.name.ext = "pdf"}

\* file_path.rename(destination): the entry moves, replacing what was there
Rename(files, e, d) ==
    (files \ {e}) \cup {[dir |-> d, name |-> e.name]}

(***************************************************************************)
(* segregate_files (lines 25-56)                                           *)
(***************************************************************************)
\* the hidden-name test of line 44 left out
MovableWithHidden(f, x) ==
    {e \in f.files : /\ e.dir = SRC
                     /\ ~e.name.isdir
                     /\ Lower(e.name.ext) = x}

\* line 44 and lines 47, 51: the entries of the source top level that move
Movable(f, x) ==
    {e \in f.files : /\ e.dir = SRC
                     /\ ~e.name.isdir
                     /\ ~e.name.hidden
                     /\ Lower(e.name.ext) = x}

RECURSIVE MoveAll(_, _, _)
MoveAll(files, S, d) ==
    IF S = {} THEN files
    ELSE LET e == CHOOSE x \in S : TRUE
         IN  MoveAll(Rename(files, e, d), S \ {e}, d)

\* the archive folders created before the source directory is looked at
SegregateFilesMkdirFirst(f) ==
    LET g == [Mkdir(Mkdir(f, DATA_2), TEXT_DATA) EXCEPT !.dirs = @ \cup {SRC}]
        txts == Movable(g, "txt")
        pdfs == Movable(g, "pdf")
    IN  [raised |-> ~Exists(f, SRC),
         fs |-> [g EXCEPT !.files =
                    MoveAll(MoveAll(@, txts, TEXT_DATA), pdfs, DATA_2)],
         txt_count |-> Cardinality(txts),
         pdf_count |-> Cardinality(pdfs),
         moved_pdfs |-> {e.name : e \in pdfs}]

\* the whole call: whether it raised, the file system it leaves, the counts
\* it returns, and the names of the PDFs it moved
SegregateFiles(f) ==
    IF ~Exists(f, SRC)
    THEN [raised |-> TRUE, fs |-> f, txt_count |-> 0, pdf_count |-> 0,
          moved_pdfs |-> {}]
    ELSE LET g == Mkdir(Mkdir(f, DATA_2), TEXT_DATA)
             txts == Movable(g, "txt")
             pdfs == Movable(g, "pdf")
         IN  [raised |-> FALSE,
              fs |-> [g EXCEPT !.files =
                         MoveAll(MoveAll(@, txts, TEXT_DATA), pdfs, DATA_2)],
              txt_count |-> Cardinality(txts),
              pdf_count |-> Cardinality(pdfs),
              moved_pdfs |-> {e.name : e \in pdfs}]

\* a call of segregate_files on its own
Segregate ==
    /\ pc = "idle"
    /\ workflow' = "segregate"
    /\ LET seg == SegregateFiles(fs)
       IN  IF seg.raised
           THEN /\ pc' = "raised"
                /\ fs' = seg.fs
                /\ UNCHANGED classified
           ELSE /\ fs' = seg.fs
                /\ classified' = [made |-> TRUE, txt_count |-> seg.txt_count,
                                  pdf_count |-> seg.pdf_count,
                                  moved_pdfs |-> seg.moved_pdfs]
                /\ pc' = "done"
    /\ UNCHANGED <<PyPDF2, call, pdf_files, idx, results, successful, failed,
                   reported, hist, uploads, text_content, invoice_data,
                   loop,
                   LIVEKIT_AVAILABLE, LIVEKIT_URL, LIVEKIT_API_KEY,
                   LIVEKIT_API_SECRET, _livekit_api, sent, response>>

\* what a source directory may hold when segregate_files is called: plain
\* files of any extension, hidden files, directories named like documents,
\* files inside a subdirectory, and files already in the two archives
SegUniverse ==
    {[dir |-> SRC, name |-> PlainName(s, x)] :
        s \in Stems, x \in {"pdf", "PDF", "txt", "csv"}}
    \cup {[dir |-> SRC, name |-> [PlainName(1, x) EXCEPT !.hidden = TRUE]] :
             x \in {"pdf", "txt"}}
    \cup {[dir |-> SRC, name |-> [PlainName(1, x) EXCEPT !.isdir = TRUE]] :
             x \in {"pdf", "txt"}}
    \cup {[dir |-> SUB, name |-> PlainName(1, x)] : x \in {"pdf", "txt"}}
    \cup {[dir |-> DATA_2, name |-> PlainName(s, "pdf")] : s \in Stems}
    \cup {[dir |-> TEXT_DATA, name |-> PlainName(s, "txt")] : s \in Stems}

\* one directory never holds a file and a directory of the same name
OneKindPerName(F) ==
    \A e1, e2 \in F :
        (e1.dir = e2.dir /\ [e1.name EXCEPT !.isdir = FALSE]
                            = [e2.name EXCEPT !.isdir = FALSE]) => e1 = e2

SegFileSystems ==
    {[dirs |-> D \cup UNION {Ancestors(f.dir) : f \in F}, files |-> F] :
        D \in {{SRC}, {SRC, DATA_2, TEXT_DATA}},
        F \in {G \in SubsetsUpTo(SegUniverse, MaxFiles) : OneKindPerName(G)}}
    \cup {[dirs |-> {}, files |-> {}]}

(***************************************************************************)
(* Discovery order                                                         *)
(***************************************************************************)
\* the orders in which a directory listing may return the set S
Orderings(S) ==
    {q \in [1..Cardinality(S) -> S] : \A i, j \in 1..Cardinality(S) :
                                          i # j => q[i] # q[j]}

\* file names compare as strings: a leading dot sorts before any stem
NameKey(n) == (IF n.hidden THEN 0 ELSE MaxStem + 1) + n.stem

RECURSIVE Insert(_, _)
Insert(e, q) ==
    IF q = <<>> THEN <<e>>
    ELSE IF NameKey(e.name) <= NameKey(Head(q).name) THEN <<e>> \o q
    ELSE <<Head(q)>> \o Insert(e, Tail(q))

\* list.sort() on the discovered paths (line 365)
RECURSIVE Sort(_)
Sort(q) == IF q = <<>> THEN <<>> ELSE Insert(Head(q), Sort(Tail(q)))

(***************************************************************************)
(* The worlds a document of a batch may live in                            *)
(***************************************************************************)
AllMissing == [l \in Locations |-> Missing]

BatchEnvs ==
    { [primary |-> Extracted(<<"x">>), txt |-> AllMissing],
      [primary |-> Raises,
       txt |-> [AllMissing EXCEPT !["parent/text_data"] = File(<<"x">>)]],
      [primary |-> Extracted(<<" ">>), txt |-> AllMissing],
      [primary |-> Raises,
       txt |-> [AllMissing EXCEPT !["with_suffix(.txt)"] = Unreadable]],
      [primary |-> Extracted(<<>>),
       txt |-> [AllMissing EXCEPT !["data/text_data"] = File(<<" ">>)]] }

\* what the JSON write of convert_pdfs_to_json may do (lines 389-390)
WriteOutcomes == {"ok", "raises"}

\* what upload_to_convex may give back (lines 328-331): a dict with success
\* set, a dict without it, a JSON value that is no dict, or an exception
UploadOutcomes == {"success", "failure", "nondict", "raises"}

NotReported == [made |-> FALSE]
NotClassified == [made |-> FALSE]

Entry(pdf, status, error) == [file |-> pdf.name, status |-> status, error |-> error]

CountStatus(rs, st) == Cardinality({i \in 1..Len(rs) : rs[i].status = st})

(***************************************************************************)
(* convert_pdfs_to_json (lines 334-420)                                    *)
(***************************************************************************)
\* lines 345-376: directory check, output folder, discovery, early return
ConvertStart ==
    /\ pc = "idle"
    /\ workflow' = "convert"
    /\ IF ~Exists(fs, DATA_2)
       THEN /\ pc' = "raised"
            /\ UNCHANGED <<fs, pdf_files, results, successful, failed, idx>>
       ELSE \E listing \in Orderings(Glob(fs, DATA_2)) :
                /\ fs' = Mkdir(fs, JSON_OUT)
                /\ pdf_files' = Sort(listing)
                /\ results' = <<>>
                /\ successful' = 0
                /\ failed' = 0
                /\ idx' = 0
                /\ pc' = IF listing = <<>> THEN "done" ELSE "loop"
    /\ UNCHANGED <<PyPDF2, call, reported, classified, hist, uploads,
                   text_content, invoice_data,
                   loop,
                   LIVEKIT_AVAILABLE, LIVEKIT_URL, LIVEKIT_API_KEY,
                   LIVEKIT_API_SECRET, _livekit_api, sent, response>>

\* the counter bumped before the JSON file is written
ConvertSuccessfulEarly(n, out, write) == IF out.ok THEN n + 1 ELSE n

\* line 392: successful after one iteration
ConvertSuccessful(n, out, write) == IF out.ok /\ write = "ok" THEN n + 1 ELSE n

\* line 404: failed after one iteration
ConvertFailed(n, out, write) == IF out.ok /\ write = "ok" THEN n ELSE n + 1

\* the loop without its except clause: a failing document leaves no entry
ConvertResultsNoExcept(rs, pdf, out, write) ==
    IF out.ok /\ write = "ok" THEN Append(rs, Entry(pdf, "converted", None)) ELSE rs

\* lines 395-410: results after one iteration
ConvertResults(rs, pdf, out, write) ==
    IF out.ok /\ write = "ok"
    THEN Append(rs, Entry(pdf, "converted", None))
    ELSE Append(rs, Entry(pdf, "error", IF out.ok THEN "OSError" ELSE out.error))

\* lines 378-410: one iteration of the loop
ConvertDoc ==
    /\ pc = "loop"
    /\ workflow = "convert"
    /\ idx < Len(pdf_files)
    /\ \E env \in BatchEnvs, write \in WriteOutcomes :
         LET pdf == pdf_files[idx + 1]
             out == ScrapePdf(pdf.name, PyPDF2, env)
             json == [dir |-> JSON_OUT, name |-> [pdf.name EXCEPT !.ext = "json"]]
         IN  /\ fs' = IF out.ok /\ write = "ok"
                       THEN [fs EXCEPT !.files = @ \cup {json}]
                       ELSE fs
             /\ successful' = ConvertSuccessful(successful, out, write)
             /\ failed' = ConvertFailed(failed, out, write)
             /\ results' = ConvertResults(results, pdf, out, write)
             /\ hist' = Append(hist, [env |-> env,
                                      sink |-> IF out.ok THEN write ELSE "unreached"])
    /\ idx' = idx + 1
    /\ UNCHANGED <<PyPDF2, call, pc, workflow, pdf_files, reported, classified,
                   uploads, text_content, invoice_data,
                   loop,
                   LIVEKIT_AVAILABLE, LIVEKIT_URL, LIVEKIT_API_KEY,
                   LIVEKIT_API_SECRET, _livekit_api, sent, response>>

\* lines 412-420: the summary and the return
ConvertFinish ==
    /\ pc = "loop"
    /\ workflow = "convert"
    /\ idx = Len(pdf_files)
    /\ reported' = [made |-> TRUE, success |-> successful, errors |-> failed]
    /\ pc' = "done"
    /\ UNCHANGED <<PyPDF2, call, fs, workflow, pdf_files, idx, results, successful,
                   failed, classified, hist, uploads, text_content, invoice_data,
                   loop,
                   LIVEKIT_AVAILABLE, LIVEKIT_URL, LIVEKIT_API_KEY,
                   LIVEKIT_API_SECRET, _livekit_api, sent, response>>

(***************************************************************************)
(* run_pipeline (lines 423-507)                                            *)
(***************************************************************************)
\* lines 447-455: the documents run_pipeline finds after segregation
PipelineFound(f) ==
    IF Glob(f, DATA) # {} THEN Glob(f, DATA)
    ELSE IF Exists(f, NESTED) THEN Glob(f, NESTED)
    ELSE {}

\* lines 429-457: segregation, early return, discovery
PipelineStart ==
    /\ pc = "idle"
    /\ workflow' = "pipeline"
    /\ LET seg == SegregateFiles(fs)
       IN  IF seg.raised
           THEN /\ pc' = "raised"
                /\ fs' = seg.fs
                /\ UNCHANGED <<classified, pdf_files, results, idx>>
           ELSE /\ fs' = seg.fs
                /\ classified' = [made |-> TRUE, txt_count |-> seg.txt_count,
                                  pdf_count |-> seg.pdf_count,
                                  moved_pdfs |-> seg.moved_pdfs]
                /\ results' = <<>>
                /\ idx' = 0
                /\ IF seg.pdf_count = 0
                   THEN /\ pdf_files' = <<>>
                        /\ pc' = "done"
                   ELSE /\ \E listing \in Orderings(PipelineFound(seg.fs)) :
                               pdf_files' = listing
                        /\ pc' = "loop"
    /\ UNCHANGED <<PyPDF2, call, successful, failed, reported, hist, uploads,
                   text_content, invoice_data,
                   loop,
                   LIVEKIT_AVAILABLE, LIVEKIT_URL, LIVEKIT_API_KEY,
                   LIVEKIT_API_SECRET, _livekit_api, sent, response>>

\* the response tested for presence only: any dict counts as uploaded
PipelineResultsAnyDict(rs, pdf, out, up) ==
    IF ~out.ok THEN Append(rs, Entry(pdf, "error", out.error))
    ELSE CASE up \in {"success", "failure"} -> Append(rs, Entry(pdf, "uploaded", None))
           [] up = "nondict" -> Append(rs, Entry(pdf, "error", "AttributeError"))
           [] up = "raises" -> Append(rs, Entry(pdf, "error", "RequestException"))

\* lines 466-496: results after one iteration
PipelineResults(rs, pdf, out, up) ==
    IF ~out.ok THEN Append(rs, Entry(pdf, "error", out.error))
    ELSE CASE up = "success" -> Append(rs, Entry(pdf, "uploaded", None))
           [] up = "failure" -> Append(rs, Entry(pdf, "error", "errorMessage"))
           [] up = "nondict" -> Append(rs, Entry(pdf, "error", "AttributeError"))
           [] up = "raises" -> Append(rs, Entry(pdf, "error", "RequestException"))

\* a failed request sent a second time
PipelineUploadsRetry(ups, out, up) ==
    IF ~out.ok THEN ups
    ELSE IF up = "raises" THEN ups \o <<out.filename, out.filename>>
    ELSE Append(ups, out.filename)

\* lines 464-472 and 318-331: the records handed to upload_to_convex, one
\* requests.post per call
PipelineUploads(ups, out, up) ==
    IF out.ok THEN Append(ups, out.filename) ELSE ups

\* lines 458-496: one iteration of the loop
PipelineDoc ==
    /\ pc = "loop"
    /\ workflow = "pipeline"
    /\ idx < Len(pdf_files)
    /\ \E env \in BatchEnvs, up \in UploadOutcomes :
         LET pdf == pdf_files[idx + 1]
             out == ScrapePdf(pdf.name, PyPDF2, env)
         IN  /\ uploads' = PipelineUploads(uploads, out, up)
             /\ results' = PipelineResults(results, pdf, out, up)
             /\ hist' = Append(hist, [env |-> env,
                                      sink |-> IF out.ok THEN up ELSE "unreached"])
    /\ idx' = idx + 1
    /\ UNCHANGED <<PyPDF2, call, fs, pc, workflow, pdf_files, successful, failed,
                   reported, classified, text_content, invoice_data,
                   loop,
                   LIVEKIT_AVAILABLE, LIVEKIT_URL, LIVEKIT_API_KEY,
                   LIVEKIT_API_SECRET, _livekit_api, sent, response>>

\* lines 498-507: the summary and the return
PipelineFinish ==
    /\ pc = "loop"
    /\ workflow = "pipeline"
    /\ idx = Len(pdf_files)
    /\ LET uploaded == CountStatus(results, "uploaded")
       IN  reported' = [made |-> TRUE, success |-> uploaded,
                        errors |-> Len(results) - uploaded]
    /\ pc' = "done"
    /\ UNCHANGED <<PyPDF2, call, fs, workflow, pdf_files, idx, results, successful,
                   failed, classified, hist, uploads, text_content, invoice_data,
                   loop,
                   LIVEKIT_AVAILABLE, LIVEKIT_URL, LIVEKIT_API_KEY,
                   LIVEKIT_API_SECRET, _livekit_api, sent, response>>

(***************************************************************************)
(* parse_invoice_data (lines 73-272): the texts                            *)
(* A text is a sequence of lines; a line is a label and a value, written   *)
(* "<label> <value>"; a line may have no label or no value.                *)
(***************************************************************************)
MaxLines == 3     \* lines of a text

Line(l, v) == [label |-> l, value |-> v]

TextLines ==
    { Line("Total:", "120.00"), Line("Total:", ".50 USD"), Line("Total:", "7.00 USD"),
      Line("Total:", ""), Line("", "$120.00"),
      Line("Subtotal:", "100.00"), Line("Subtotal:", ","),
      Line("Tax (9%):", "$7.00"), Line("Tax (9%):", ","),
      Line("Status:", "Paid"), Line("Status:", "OVERDUE"), Line("Status:", "Pending"),
      Line("Payment completed:", "False"), Line("Payment completed:", "True"),
      Line("Invoice #:", "INV-1-1"), Line("", "INV-2-2") }

InvoiceTexts == UNION {[1..n -> TextLines] : n \in 0..MaxLines}

MaxCells == 4     \* lines between the table header and the Subtotal line

HeaderRow == "Description Qty Unit Price Amount"

\* the lines an items table may hold: descriptions (one of them with the
\* word "amount" inside), a quantity, two prices, and a repeated header
CellLines ==
    {"Widget A", "Gadget B", "Paramount Plan", "3", "$10.00", "$30.00", HeaderRow}

CellSeqs == UNION {[1..n -> CellLines] : n \in 0..MaxCells}

Bare(q) == [k \in DOMAIN q |-> Line("", q[k])]

\* texts with an items section: an optional Items: list, an optional table
\* header, the cell lines, an optional Subtotal line
ItemTexts ==
    {pre \o hdr \o Bare(cells) \o end :
        pre \in {<<>>, <<Line("Items:", ""), Line("", "- Listed item")>>},
        hdr \in {<<>>, <<Line("", HeaderRow)>>},
        cells \in CellSeqs,
        end \in {<<>>, <<Line("Subtotal:", "100.00")>>}}

NoCap == "<no match>"

\* what the capturing group of a pattern takes from the start of a value
Cap(kind, v) ==
    CASE kind = "money" ->      \* \$?([\d,]+\.?\d*)
            CASE v = "120.00" -> "120.00"
              [] v = "$120.00" -> "120.00"
              [] v = "100.00" -> "100.00"
              [] v = "$7.00" -> "7.00"
              [] v = "7.00 USD" -> "7.00"
              [] v = "," -> ","
              [] OTHER -> NoCap
      [] kind = "usd" ->        \* ([\d.]+)\s*USD
            CASE v = "7.00 USD" -> "7.00"
              [] v = ".50 USD" -> ".50"
              [] OTHER -> NoCap
      [] kind = "bool" ->       \* (True|False)
            IF v \in {"True", "False"} THEN v ELSE NoCap
      [] kind = "status" ->     \* (Paid|Overdue|Unpaid), ignoring case
            IF v \in {"Paid", "OVERDUE"} THEN v ELSE NoCap
      [] kind = "paid" ->       \* (Paid), ignoring case
            IF v = "Paid" THEN v ELSE NoCap
      [] kind = "inv" ->        \* (INV-\d+-\d+)
            IF v \in {"INV-1-1", "INV-2-2"} THEN v ELSE NoCap
      [] OTHER -> NoCap

\* a candidate pattern: the labels its literal part matches (ignoring case),
\* where its group may sit, and what the group captures
Pattern(re, labels, where, cap) ==
    [re |-> re, labels |-> labels, where |-> where, cap |-> cap]

TotalLabels == {"Total:", "Subtotal:"}   \* "Subtotal:" ends in "total:"

\* lines 93-155
patterns ==
    [ invoice_number |->
        << Pattern("Invoice\\s*#:\\s*(INV-\\d+-\\d+)", {"Invoice #:"}, "same_or_next", "inv"),
           Pattern("INVOICE:\\s*(INV-\\d+-\\d+)", {}, "same_or_next", "inv"),
           Pattern("(INV-\\d+-\\d+)", {}, "anywhere", "inv") >>,
      order_number |->
        << Pattern("Order\\s*#:\\s*(ORD-\\d+-\\d+)", {}, "same_or_next", "ord"),
           Pattern("ORDER:\\s*(ORD-\\d+-\\d+)", {}, "same_or_next", "ord"),
           Pattern("(ORD-\\d+-\\d+)", {}, "anywhere", "ord") >>,
      customer |->
        << Pattern("Bill\\s+To\\s*\\n\\s*([^\\n]+)", {}, "next", "rest"),
           Pattern("Customer:\\s*(.+?)(?:\\n|$)", {}, "same_or_next", "rest"),
           Pattern("Bill\\s+To\\s+([A-Z][^\\n]+)", {}, "same_or_next", "rest") >>,
      email |->
        << Pattern("Accounts\\s+Payable:\\s*([\\w\\.-]+@[\\w\\.-]+\\.\\w+)", {}, "same_or_next", "email"),
           Pattern("Email:\\s*([\\w\\.-]+@[\\w\\.-]+\\.\\w+)", {}, "same_or_next", "email"),
           Pattern("([\\w\\.-]+@[\\w\\.-]+\\.\\w+)", {}, "anywhere", "email") >>,
      order_date |->
        << Pattern("Invoice\\s+Date:\\s*(\\d{4}-\\d{2}-\\d{2})", {}, "same_or_next", "date"),
           Pattern("Order\\s+date:\\s*(\\d{4}-\\d{2}-\\d{2})", {}, "same_or_next", "date"),
           Pattern("Invoice\\s+Date[:\\s]+(\\d{4}-\\d{2}-\\d{2})", {}, "same_or_next", "date") >>,
      due_date |->
        << Pattern("Due\\s+Date:\\s*(\\d{4}-\\d{2}-\\d{2})", {}, "same_or_next", "date"),
           Pattern("Due\\s+date:\\s*(\\d{4}-\\d{2}-\\d{2})", {}, "same_or_next", "date") >>,
      subtotal |->
        << Pattern("Subtotal:\\s*\\n\\s*\\$?([\\d,]+\\.?\\d*)", {"Subtotal:"}, "next", "money"),
           Pattern("Subtotal:\\s*\\$?([\\d,]+\\.?\\d*)", {"Subtotal:"}, "same_or_next", "money"),
           Pattern("Subtotal:\\s*([\\d.]+)\\s*USD", {"Subtotal:"}, "same_or_next", "usd"),
           Pattern("Subtotal[:\\s]+\\$?([\\d,]+\\.?\\d*)", {"Subtotal:"}, "same_or_next", "money") >>,
      tax |->
        << Pattern("Tax\\s*\\([^)]*\\):\\s*\\n\\s*\\$?([\\d,]+\\.?\\d*)", {"Tax (9%):"}, "next", "money"),
           Pattern("Tax\\s*\\([^)]*\\):\\s*\\$?([\\d,]+\\.?\\d*)", {"Tax (9%):"}, "same_or_next", "money"),
           Pattern("Tax:\\s*([\\d.]+)\\s*USD", {}, "same_or_next", "usd"),
           Pattern("Tax[:\\s]+\\$?([\\d,]+\\.?\\d*)", {}, "same_or_next", "money") >>,
      total |->
        << Pattern("(?:Tax.*?)\\nTotal:\\s*\\n\\s*\\$?([\\d,]+\\.?\\d*)", {"Tax (9%):"}, "after_tax", "money"),
           Pattern("Total:\\s*\\n\\s*\\$?([\\d,]+\\.?\\d*)", TotalLabels, "next", "money"),
           Pattern("Total:\\s*\\$?([\\d,]+\\.?\\d*)", TotalLabels, "same_or_next", "money"),
           Pattern("Total:\\s*([\\d.]+)\\s*USD", TotalLabels, "same_or_next", "usd"),
           Pattern("Total[:\\s]+\\$?([\\d,]+\\.?\\d*)", TotalLabels, "same_or_next", "money") >>,
      payment_completed |->
        << Pattern("Payment\\s+completed:\\s*(True|False)", {"Payment completed:"}, "same_or_next", "bool"),
           Pattern("Status:\\s*(Paid|Overdue|Unpaid)", {"Status:"}, "same_or_next", "status"),
           Pattern("Status[:\\s]+(Paid)", {"Status:"}, "same_or_next", "paid") >>,
      payment_method |->
        << Pattern("Payment\\s+method:\\s*(.+)", {}, "same_or_next", "rest"),
           Pattern("Payment\\s+Method[:\\s]+(.+)", {}, "same_or_next", "rest") >>,
      transaction_id |->
        << Pattern("Transaction\\s+ID:\\s*(.+)", {}, "same_or_next", "rest"),
           Pattern("Transaction\\s+Id[:\\s]+(.+)", {}, "same_or_next", "rest") >> ]

\* what the pattern captures when its match starts on line i, NoCap when it
\* does not match there
MatchAt(p, text, i) ==
    LET here == text[i]
        bare(j) == j <= Len(text) /\ text[j].label = ""
    IN  CASE p.where = "anywhere" -> Cap(p.cap, here.value)
          [] p.where = "same_or_next" ->
                IF here.label \notin p.labels THEN NoCap
                ELSE IF here.value # "" THEN Cap(p.cap, here.value)
                ELSE IF bare(i + 1) THEN Cap(p.cap, text[i + 1].value)
                ELSE NoCap
          [] p.where = "next" ->
                IF here.label \in p.labels /\ here.value = "" /\ bare(i + 1)
                THEN Cap(p.cap, text[i + 1].value)
                ELSE NoCap
          [] p.where = "after_tax" ->
                IF /\ here.label \in p.labels
                   /\ i + 1 <= Len(text)
                   /\ text[i + 1] = Line("Total:", "")
                   /\ bare(i + 2)
                THEN Cap(p.cap, text[i + 2].value)
                ELSE NoCap

\* re.finditer(pattern, text): the matches in text order, each with the
\* line its match starts on and its group(1)
RECURSIVE FindIterFrom(_, _, _)
FindIterFrom(p, text, i) ==
    IF i > Len(text) THEN <<>>
    ELSE IF MatchAt(p, text, i) = NoCap THEN FindIterFrom(p, text, i + 1)
    ELSE <<[pos |-> i, group |-> MatchAt(p, text, i)]>> \o FindIterFrom(p, text, i + 1)

FindIter(p, text) == FindIterFrom(p, text, 1)

(***************************************************************************)
(* parse_invoice_data: values                                              *)
(***************************************************************************)
\* a Python float, in cents, or None
NoNumber == [none |-> TRUE, cents |-> 0]
Number(c) == [none |-> FALSE, cents |-> c]

\* value.replace(',', '')
RemoveCommas(v) == IF v = "," THEN "" ELSE v

\* float(value): the number, or none when float raises ValueError
Float(v) ==
    CASE v = "120.00" -> Number(12000)
      [] v = "100.00" -> Number(10000)
      [] v = "7.00" -> Number(700)
      [] v = ".50" -> Number(50)
      [] OTHER -> NoNumber

\* value.lower() of a captured payment token
LowerToken(v) ==
    CASE v = "True" -> "true"
      [] v = "False" -> "false"
      [] v = "Paid" -> "paid"
      [] v = "OVERDUE" -> "overdue"
      [] OTHER -> v

\* lines 75-90
DefaultInvoiceData ==
    [ invoice_number |-> None, order_number |-> None, customer |-> None,
      email |-> None, order_date |-> None, due_date |-> None,
      subtotal |-> NoNumber, tax |-> NoNumber, total |-> NoNumber,
      payment_completed |-> "False", payment_method |-> None,
      transaction_id |-> None, items |-> <<>>, notes |-> None ]

ScalarKeys ==
    {"invoice_number", "order_number", "customer", "email", "order_date",
     "due_date", "subtotal", "tax", "total", "payment_completed",
     "payment_method", "transaction_id"}

(***************************************************************************)
(* parse_invoice_data: the cascade (lines 157-202)                         *)
(***************************************************************************)
\* lines 161-165: the matches of every pattern, pattern after pattern
RECURSIVE AllMatchesFrom(_, _, _)
AllMatchesFrom(pattern_list, text, k) ==
    IF k > Len(pattern_list) THEN <<>>
    ELSE FindIter(pattern_list[k], text) \o AllMatchesFrom(pattern_list, text, k + 1)

AllMatches(pattern_list, text) == AllMatchesFrom(pattern_list, text, 1)

\* lines 166-175: total, from the last element of all_matches
TotalValue(text, old) ==
    LET all_matches == AllMatches(patterns.total, text)
    IN  IF all_matches = <<>> THEN old
        ELSE LET value == RemoveCommas(all_matches[Len(all_matches)].group)
             IN  IF Float(value).none THEN old ELSE Float(value)

\* lines 179-181: index of the first pattern of the list that matches, 0 if none
RECURSIVE FirstMatching(_, _, _)
FirstMatching(pattern_list, text, k) ==
    IF k > Len(pattern_list) THEN 0
    ELSE IF FindIter(pattern_list[k], text) # <<>> THEN k
    ELSE FirstMatching(pattern_list, text, k + 1)

\* a number that cannot be parsed read as zero
ConvertedZeroOnError(key, value, old) ==
    IF key \in {"subtotal", "tax"}
    THEN IF Float(RemoveCommas(value)).none THEN Number(0)
         ELSE Float(RemoveCommas(value))
    ELSE IF key = "payment_completed"
    THEN IF LowerToken(value) \in {"true", "paid"} THEN "True"
         ELSE IF LowerToken(value) \in {"false", "overdue", "unpaid"} THEN "False"
         ELSE old
    ELSE IF key \in {"payment_method", "transaction_id"}
    THEN IF value # "" THEN value ELSE None
    ELSE value

\* lines 182-201: the field after the winning match
Converted(key, value, old) ==
    IF key \in {"subtotal", "tax"}
    THEN IF Float(RemoveCommas(value)).none THEN old ELSE Float(RemoveCommas(value))
    ELSE IF key = "payment_completed"
    THEN IF LowerToken(value) \in {"true", "paid"} THEN "True"
         ELSE IF LowerToken(value) \in {"false", "overdue", "unpaid"} THEN "False"
         ELSE old
    ELSE IF key \in {"payment_method", "transaction_id"}
    THEN IF value # "" THEN value ELSE None
    ELSE value

\* lines 179-202: a field other than total
FieldValue(key, text, old) ==
    LET k == FirstMatching(patterns[key], text, 1)
    IN  IF k = 0 THEN old
        ELSE Converted(key, Head(FindIter(patterns[key][k], text)).group, old)

(***************************************************************************)
(* parse_invoice_data: items (lines 204-262)                               *)
(***************************************************************************)
\* a formatted item string: "- d xq ($u each = $a)", or "- d" when q is None
ItemString(d, q, u, a) ==
    [description |-> d, qty |-> q, unit_price |-> u, amount |-> a]

\* line 220: the line contains one of the four header words, in any case
HasHeaderWord(v) == v \in {HeaderRow, "Paramount Plan"}

\* line 225: re.match(r'^[A-Za-z]', line) and '$' not in line
LooksLikeDescription(v) == v \in {"Widget A", "Gadget B", "Paramount Plan", HeaderRow}

\* line 232: re.match(r'^\d+$', line)
AllDigits(v) == v = "3"

\* lines 237 and 242: '$' in line
HasDollar(v) == v \in {"$10.00", "$30.00"}

\* lines 238 and 243: .replace('$', '').replace(',', '').strip()
StripCurrency(v) ==
    CASE v = "$10.00" -> "10.00"
      [] v = "$30.00" -> "30.00"
      [] OTHER -> v

\* truth value of an optional string
Truthy(v) == v # None /\ v # ""

\* a row without all three of its cells appends nothing
EmitItemOnlyComplete(description, qty, unit_price, amount) ==
    IF Truthy(qty) /\ Truthy(unit_price) /\ Truthy(amount)
    THEN <<ItemString(description, qty, unit_price, amount)>>
    ELSE <<>>

\* lines 246-250: what a description appends to items
EmitItem(description, qty, unit_price, amount) ==
    IF Truthy(qty) /\ Truthy(unit_price) /\ Truthy(amount)
    THEN <<ItemString(description, qty, unit_price, amount)>>
    ELSE IF Truthy(description)
    THEN <<ItemString(description, None, None, None)>>
    ELSE <<>>

\* lines[k] with k counted from 0; reading past the end is an IndexError
LineAt(lines, k) == IF k < Len(lines) THEN lines[k + 1] ELSE "IndexError"

\* the lookaheads of lines 232, 237 and 242 without their i + 1 < len(lines)
TableStepUnguarded(lines, i) ==
    LET line == LineAt(lines, i)
    IN  IF HasHeaderWord(line) \/ ~LooksLikeDescription(line)
        THEN [i |-> i + 1, item |-> <<>>, consumed |-> {}, read |-> {i}]
        ELSE LET hasq == AllDigits(LineAt(lines, i + 1))
                 i1 == IF hasq THEN i + 1 ELSE i
                 hasu == HasDollar(LineAt(lines, i1 + 1))
                 i2 == IF hasu THEN i1 + 1 ELSE i1
                 hasa == HasDollar(LineAt(lines, i2 + 1))
                 i3 == IF hasa THEN i2 + 1 ELSE i2
                 qty == IF hasq THEN LineAt(lines, i1) ELSE None
                 unit_price == IF hasu THEN StripCurrency(LineAt(lines, i2)) ELSE None
                 amount == IF hasa THEN StripCurrency(LineAt(lines, i3)) ELSE None
             IN  [i |-> i3 + 1,
                  item |-> EmitItem(line, qty, unit_price, amount),
                  consumed |-> (i + 1)..i3,
                  read |-> {i, i1 + 1, i2 + 1, i3 + 1}]

\* lines 217-250: one iteration of the while loop at cursor i: the cursor
\* after it, the item it appends, the lines its lookaheads consumed and the
\* indices it read
TableStep(lines, i) ==
    LET line == LineAt(lines, i)
        n == Len(lines)
    IN  IF HasHeaderWord(line) \/ ~LooksLikeDescription(line)
        THEN [i |-> i + 1, item |-> <<>>, consumed |-> {}, read |-> {i}]
        ELSE LET hasq == i + 1 < n /\ AllDigits(LineAt(lines, i + 1))
                 i1 == IF hasq THEN i + 1 ELSE i
                 hasu == i1 + 1 < n /\ HasDollar(LineAt(lines, i1 + 1))
                 i2 == IF hasu THEN i1 + 1 ELSE i1
                 hasa == i2 + 1 < n /\ HasDollar(LineAt(lines, i2 + 1))
                 i3 == IF hasa THEN i2 + 1 ELSE i2
                 qty == IF hasq THEN LineAt(lines, i1) ELSE None
                 unit_price == IF hasu THEN StripCurrency(LineAt(lines, i2)) ELSE None
                 amount == IF hasa THEN StripCurrency(LineAt(lines, i3)) ELSE None
             IN  [i |-> i3 + 1,
                  item |-> EmitItem(line, qty, unit_price, amount),
                  consumed |-> (i + 1)..i3,
                  read |-> {i} \cup {k \in {i + 1, i1 + 1, i2 + 1} : k < n}]

\* lines 216-250: the loop from cursor i to the end of the lines
RECURSIVE TableLoop(_, _)
TableLoop(lines, i) ==
    IF i >= Len(lines) THEN <<>>
    ELSE TableStep(lines, i).item \o TableLoop(lines, TableStep(lines, i).i)

\* the positions of the text whose line has the label
LabelledAt(text, labels) == {k \in 1..Len(text) : text[k].label \in labels}

HeaderAt(text) == {k \in 1..Len(text) : text[k] = Line("", HeaderRow)}

Least(S) == CHOOSE k \in S : \A j \in S : k <= j

\* lines 206-213: whether the table pattern matches, and the stripped
\* non-empty lines between the first header row and the next "Subtotal:"
TableMatch(text) ==
    IF HeaderAt(text) = {} THEN [found |-> FALSE, lines |-> <<>>]
    ELSE LET h == Least(HeaderAt(text))
             stops == {k \in LabelledAt(text, {"Subtotal:"}) : k > h}
         IN  IF stops = {} THEN [found |-> FALSE, lines |-> <<>>]
             ELSE [found |-> TRUE,
                   lines |-> [k \in 1..(Least(stops) - h - 1) |-> text[h + k].value]]

\* lines 206-250: the items of the table strategy
TableItems(text) ==
    IF TableMatch(text).found THEN TableLoop(TableMatch(text).lines, 0) ELSE <<>>

\* line 260: line.strip().startswith("-")
StartsWithDash(v) == v = "- Listed item"

\* a line of the list that is already an item string
AsItem(v) == CASE v = "- Listed item" -> ItemString("Listed item", None, None, None)

RECURSIVE DashLines(_)
DashLines(q) ==
    IF q = <<>> THEN <<>>
    ELSE (IF StartsWithDash(Head(q).value) THEN <<AsItem(Head(q).value)>> ELSE <<>>)
         \o DashLines(Tail(q))

\* lines 255-260: the dash lines between the first "Items:" and the next
\* "Notes:" or "Subtotal:", or the end of the text
ListItems(text) ==
    IF LabelledAt(text, {"Items:"}) = {} THEN <<>>
    ELSE LET h == Least(LabelledAt(text, {"Items:"}))
             stops == {k \in LabelledAt(text, {"Notes:", "Subtotal:"}) : k > h}
             last == IF stops = {} THEN Len(text) ELSE Least(stops) - 1
         IN  DashLines(SubSeq(text, h + 1, last))

\* the list strategy run whatever the table strategy found
ItemsBothStrategies(text) == TableItems(text) \o ListItems(text)

\* lines 204-262: the table strategy, then the list strategy if it found nothing
Items(text) ==
    IF TableItems(text) # <<>> THEN TableItems(text) ELSE ListItems(text)

\* lines 73-272 on a text without Notes:
ParseInvoiceData(text) ==
    [key \in DOMAIN DefaultInvoiceData |->
        IF key = "total" THEN TotalValue(text, DefaultInvoiceData[key])
        ELSE IF key \in ScalarKeys THEN FieldValue(key, text, DefaultInvoiceData[key])
        ELSE IF key = "items" THEN Items(text)
        ELSE DefaultInvoiceData[key]]

\* lines 310-315: the record scrape_pdf returns, the parsed fields and the
\* two keys that name the document
ScrapeRecord(data, pdf_name, pdf_path) ==
    [key \in DOMAIN data \cup {"filename", "file_path"} |->
        IF key = "filename" THEN pdf_name
        ELSE IF key = "file_path" THEN pdf_path
        ELSE data[key]]

\* one call of parse_invoice_data, and what scrape_pdf makes of its result
Parse ==
    /\ ~invoice_data.made
    /\ invoice_data' =
          [made |-> TRUE,
           data |-> ParseInvoiceData(text_content),
           record |-> ScrapeRecord(ParseInvoiceData(text_content),
                                   "1.pdf", "src/data_2/1.pdf")]
    /\ UNCHANGED <<PyPDF2, call, fs, pc, workflow, pdf_files, idx, results,
                   successful, failed, reported, classified, hist, uploads,
                   text_content,
                   loop,
                   LIVEKIT_AVAILABLE, LIVEKIT_URL, LIVEKIT_API_KEY,
                   LIVEKIT_API_SECRET, _livekit_api, sent, response>>

(***************************************************************************)
(* voice_call/call_api.py: values                                          *)
(***************************************************************************)
\* the client handle: Python None, or the dict of lines 54-59
NoHandle ==
    [none |-> TRUE, url |-> "", api_key |-> "", api_secret |-> "", use_http |-> FALSE]

HttpHandle(url, key, secret) ==
    [none |-> FALSE, url |-> url, api_key |-> key, api_secret |-> secret,
     use_http |-> TRUE]

\* what os.getenv may give each configuration value: empty, or a value
UrlValues == {"", "wss://phantompay.livekit.cloud"}
KeyValues == {"", "APIkey"}
SecretValues == {"", "secret"}

\* lines 36-60: the handle get_livekit_api returns, which is also the new
\* value of the global
GetLivekitApi(handle, available, url, key, secret) ==
    IF ~handle.none THEN handle
    ELSE IF ~available THEN NoHandle
    ELSE IF url = "" \/ key = "" \/ secret = "" THEN NoHandle
    ELSE HttpHandle(url, key, secret)

\* what request.get_json() gives: it raises, or it is null, {}, a list, or
\* an object with some of the three fields
Body(kind, email, customer, phone_number) ==
    [kind |-> kind, email |-> email, customer |-> customer,
     phone_number |-> phone_number]

Bodies ==
    {Body(k, None, None, None) : k \in {"raises", "null", "empty", "list"}}
    \cup {Body("object", e, c, ph) :
             e \in {None, "a@b.c"}, c \in {None, "Jo Doe"},
             ph \in {None, "", "+15550100"}}

\* a customer profile as Convex answers it: null, {}, a list, or an object
\* whose unpaidInvoices is missing, null or a number
Profile(kind, unpaid, n) == [kind |-> kind, unpaid |-> unpaid, n |-> n]

NullProfile == Profile("null", "missing", 0)

Profiles ==
    {NullProfile, Profile("empty", "missing", 0), Profile("list", "missing", 0),
     Profile("object", "missing", 0), Profile("object", "null", 0),
     Profile("object", "number", 0), Profile("object", "number", 2)}

\* the answer of the Convex query: the request raises (network error or
\* error status), or it carries the profile, inside {"value": ...} or bare
ConvexReplies ==
    {[kind |-> "raises", profile |-> NullProfile]}
    \cup {[kind |-> k, profile |-> pr] : k \in {"wrapped", "bare"}, pr \in Profiles}

\* a failed Convex query taken for a customer with unpaid invoices
GetCustomerProfileAssumed(reply) ==
    IF reply.kind = "raises" THEN Profile("object", "number", 2) ELSE reply.profile

\* lines 63-85
GetCustomerProfile(reply) ==
    IF reply.kind = "raises" THEN NullProfile ELSE reply.profile

\* the answer of the CreateRoom request: it raises, or it has a status and a
\* body: an object with a name, an object without, a list, or no JSON
CreateReply(kind, status_code, body) ==
    [kind |-> kind, status_code |-> status_code, body |-> body]

CreateReplies ==
    {CreateReply("raises", 0, "nojson"), CreateReply("answered", 401, "nojson")}
    \cup {CreateReply("answered", 200, b) : b \in {"named", "unnamed", "list", "nojson"}}

\* line 163: "payment-call-" and the identifier with @, space and . replaced
RoomName(customer_identifier) ==
    CASE customer_identifier = "a@b.c" -> "payment-call-a-b-c"
      [] customer_identifier = "Jo Doe" -> "payment-call-Jo-Doe"
      [] OTHER -> "payment-call-customer"

\* x or y on optional strings
Or(x, y) == IF Truthy(x) THEN x ELSE y

\* a JSON response and its status
Response(status, success, error, room_name) ==
    [status |-> status, success |-> success, error |-> error,
     room_name |-> room_name]

\* a request handed to requests.post
Request(to, name, answer) == [to |-> to, name |-> name, answer |-> answer]

(***************************************************************************)
(* initiate_call (lines 113-316)                                           *)
(***************************************************************************)
\* a room-creation answer other than 200 treated as a failure
CreateRoomStrict(room_name, create) ==
    IF create.kind = "raises" \/ create.status_code # 200
          \/ create.body \in {"list", "nojson"}
    THEN Response(500, FALSE, "Failed to create call room", None)
    ELSE Response(200, TRUE, None,
                  IF create.body = "named" THEN "srv-room" ELSE room_name)

\* lines 215-312: the response once the CreateRoom request was handed to
\* requests.post
CreateRoom(room_name, create) ==
    IF create.kind = "raises"
    THEN Response(500, FALSE, "Failed to create call room", None)
    ELSE IF create.status_code # 200
    THEN Response(200, TRUE, None, room_name)
    ELSE IF create.body \in {"list", "nojson"}
    THEN Response(500, FALSE, "Failed to create call room", None)
    ELSE Response(200, TRUE, None,
                  IF create.body = "named" THEN "srv-room" ELSE room_name)

\* the whole call: the response, the requests sent, and the global handle
\* it leaves
InitiateCall(handle, available, url, key, secret, data, reply, create) ==
    LET out(r, q, h) == [response |-> r, sent |-> q, handle |-> h]
        livekit_api == GetLivekitApi(handle, available, url, key, secret)
        customer_profile == GetCustomerProfile(reply)
        query == Request("getCustomerProfile", None, reply.kind)
        room_name == RoomName(Or(data.email, Or(data.customer, "customer")))
        room == Request("CreateRoom", room_name,
                        IF create.kind = "raises" THEN "raises"
                        ELSE IF create.status_code = 200 THEN "200" ELSE "401")
    IN  IF data.kind = "raises"
        THEN out(Response(500, FALSE, "exception", None), <<>>, handle)
        ELSE IF data.kind \in {"null", "empty"}
        THEN out(Response(400, FALSE, "No data provided", None), <<>>, handle)
        ELSE IF data.kind = "list"
        THEN out(Response(500, FALSE, "exception", None), <<>>, handle)
        ELSE IF ~Truthy(data.email) /\ ~Truthy(data.customer)
        THEN out(Response(400, FALSE, "email or customer is required", None),
                 <<>>, handle)
        ELSE IF ~Truthy(data.phone_number)
        THEN out(Response(400, FALSE, "phone_number is required", None),
                 <<>>, handle)
        ELSE IF livekit_api.none
        THEN out(Response(500, FALSE, "LiveKit credentials not configured", None),
                 <<>>, livekit_api)
        ELSE IF customer_profile.kind \in {"null", "empty"}
        THEN out(Response(404, FALSE, "Customer not found or has no invoices", None),
                 <<query>>, livekit_api)
        ELSE IF customer_profile.kind = "list"
        THEN out(Response(500, FALSE, "exception", None), <<query>>, livekit_api)
        ELSE IF customer_profile.unpaid = "missing"
                \/ (customer_profile.unpaid = "number" /\ customer_profile.n = 0)
        THEN out(Response(400, FALSE, "Customer has no unpaid invoices", None),
                 <<query>>, livekit_api)
        ELSE out(CreateRoom(room_name, create), <<query, room>>, livekit_api)

NoResponse == [made |-> FALSE, handler |-> None]

\* one POST /api/initiate-call, the first call request the process serves
Initiate ==
    /\ response.handler \in {None, "health"}
    /\ \E data \in Bodies, reply \in ConvexReplies, create \in CreateReplies :
         LET r == InitiateCall(_livekit_api, LIVEKIT_AVAILABLE, LIVEKIT_URL,
                               LIVEKIT_API_KEY, LIVEKIT_API_SECRET,
                               data, reply, create)
         IN  /\ _livekit_api' = r.handle
             /\ sent' = r.sent
             /\ response' = [made |-> TRUE, handler |-> "initiate_call",
                             data |-> data, reply |-> reply, create |-> create,
                             before |-> _livekit_api, out |-> r.response]
    /\ UNCHANGED <<PyPDF2, call, fs, pc, workflow, pdf_files, idx, results,
                   successful, failed, reported, classified, hist, uploads,
                   text_content, invoice_data, loop, LIVEKIT_AVAILABLE,
                   LIVEKIT_URL, LIVEKIT_API_KEY, LIVEKIT_API_SECRET>>

(***************************************************************************)
(* call_status (lines 319-360) and health (lines 401-412)                  *)
(***************************************************************************)
\* the rooms the LiveKit server has, and whether listing them works
RoomWorlds ==
    {[rooms |-> R, lookup |-> l] : R \in SUBSET {"r1", "r2"}, l \in {"ok", "raises"}}

\* line 339: livekit_api.room exists on an SDK client, not on the dict
HasRoomService(handle) == ~handle.none /\ ~handle.use_http

\* the whole call: the response and the global handle it leaves
CallStatus(handle, available, url, key, secret, room_name, world) ==
    LET out(r, h) == [response |-> r, handle |-> h]
        livekit_api == GetLivekitApi(handle, available, url, key, secret)
    IN  IF ~Truthy(room_name)
        THEN out(Response(400, FALSE, "room_name is required", None), handle)
        ELSE IF livekit_api.none
        THEN out(Response(500, FALSE, "LiveKit credentials not configured", None),
                 livekit_api)
        ELSE IF ~HasRoomService(livekit_api)
        THEN out(Response(500, FALSE, "exception", None), livekit_api)
        ELSE IF world.lookup = "raises"
        THEN out(Response(500, FALSE, "exception", None), livekit_api)
        ELSE IF room_name \notin world.rooms
        THEN out(Response(404, FALSE, "Room not found", None), livekit_api)
        ELSE out(Response(200, TRUE, None, room_name), livekit_api)

\* one GET /api/call-status, the first call request the process serves
Status ==
    /\ response.handler \in {None, "health"}
    /\ \E room_name \in {None, "", "r1"}, world \in RoomWorlds :
         LET r == CallStatus(_livekit_api, LIVEKIT_AVAILABLE, LIVEKIT_URL,
                             LIVEKIT_API_KEY, LIVEKIT_API_SECRET, room_name, world)
         IN  /\ _livekit_api' = r.handle
             /\ sent' = <<>>
             /\ response' = [made |-> TRUE, handler |-> "call_status",
                             room_name |-> room_name, world |-> world,
                             before |-> _livekit_api, out |-> r.response]
    /\ UNCHANGED <<PyPDF2, call, fs, pc, workflow, pdf_files, idx, results,
                   successful, failed, reported, classified, hist, uploads,
                   text_content, invoice_data, loop, LIVEKIT_AVAILABLE,
                   LIVEKIT_URL, LIVEKIT_API_KEY, LIVEKIT_API_SECRET>>

\* one GET /health before any call request: it initializes the handle
Health ==
    /\ response.handler \in {None, "health"}
    /\ _livekit_api' = GetLivekitApi(_livekit_api, LIVEKIT_AVAILABLE, LIVEKIT_URL,
                                     LIVEKIT_API_KEY, LIVEKIT_API_SECRET)
    /\ sent' = <<>>
    /\ response' = [made |-> TRUE, handler |-> "health",
                    out |-> Response(200, TRUE, None, None)]
    /\ UNCHANGED <<PyPDF2, call, fs, pc, workflow, pdf_files, idx, results,
                   successful, failed, reported, classified, hist, uploads,
                   text_content, invoice_data, loop, LIVEKIT_AVAILABLE,
                   LIVEKIT_URL, LIVEKIT_API_KEY, LIVEKIT_API_SECRET>>

\* the call API at rest, in the specifications of the pipeline
CallApiUnused ==
    /\ LIVEKIT_AVAILABLE = FALSE
    /\ LIVEKIT_URL = ""
    /\ LIVEKIT_API_KEY = ""
    /\ LIVEKIT_API_SECRET = ""
    /\ _livekit_api = NoHandle
    /\ sent = <<>>
    /\ response = NoResponse

(***************************************************************************)
(* Specifications                                                          *)
(***************************************************************************)
NoParse == [made |-> FALSE]

\* the table loop before it starts on the lines
StartLoop(lines) ==
    [lines |-> lines, i |-> 0, items |-> <<>>, visited |-> <<>>,
     consumed |-> {}, read |-> {}]

NoLoop == StartLoop(<<>>)

\* the two workflows, started on any file system
Init ==
    /\ PyPDF2 \in BOOLEAN
    /\ call = NoCall
    /\ fs \in FileSystems
    /\ pc = "idle"
    /\ workflow = None
    /\ pdf_files = <<>>
    /\ idx = 0
    /\ results = <<>>
    /\ successful = 0
    /\ failed = 0
    /\ reported = NotReported
    /\ classified = NotClassified
    /\ hist = <<>>
    /\ uploads = <<>>
    /\ text_content = <<>>
    /\ invoice_data = NoParse
    /\ loop = NoLoop
    /\ CallApiUnused

Next ==
    \/ ConvertStart
    \/ ConvertDoc
    \/ ConvertFinish
    \/ PipelineStart
    \/ PipelineDoc
    \/ PipelineFinish
    \/ Segregate

Spec == Init /\ [][Next]_vars

\* scrape_pdf alone, on any document in any world
InitScrape ==
    /\ PyPDF2 \in BOOLEAN
    /\ call = NoCall
    /\ fs = [dirs |-> {}, files |-> {}]
    /\ pc = "idle"
    /\ workflow = None
    /\ pdf_files = <<>>
    /\ idx = 0
    /\ results = <<>>
    /\ successful = 0
    /\ failed = 0
    /\ reported = NotReported
    /\ classified = NotClassified
    /\ hist = <<>>
    /\ uploads = <<>>
    /\ text_content = <<>>
    /\ invoice_data = NoParse
    /\ loop = NoLoop
    /\ CallApiUnused

NextScrape == Scrape

SpecScrape == InitScrape /\ [][NextScrape]_vars

\* segregate_files alone, on any source directory
InitSegregate ==
    /\ PyPDF2 \in BOOLEAN
    /\ call = NoCall
    /\ fs \in SegFileSystems
    /\ pc = "idle"
    /\ workflow = None
    /\ pdf_files = <<>>
    /\ idx = 0
    /\ results = <<>>
    /\ successful = 0
    /\ failed = 0
    /\ reported = NotReported
    /\ classified = NotClassified
    /\ hist = <<>>
    /\ uploads = <<>>
    /\ text_content = <<>>
    /\ invoice_data = NoParse
    /\ loop = NoLoop
    /\ CallApiUnused

NextSegregate == Segregate

SpecSegregate == InitSegregate /\ [][NextSegregate]_vars

(***************************************************************************)
(* Properties of the batch workflows (checked under Spec)                  *)
(***************************************************************************)
Returned(w) == workflow = w /\ pc = "done"

\* the entries of the result list that name the document n
EntriesFor(n) == {i \in 1..Len(results) : results[i].file = n}

\* C1: when convert_pdfs_to_json returns, the result list has exactly one
\* entry per PDF of the folder, whatever failed: as many entries as documents.
C1_OneResultPerDocument ==
    Returned("convert") =>
        /\ Len(results) = Cardinality(Glob(fs, DATA_2))
        /\ \A e \in Glob(fs, DATA_2) : Cardinality(EntriesFor(e.name)) = 1

C1_Witness ==
    /\ Returned("convert")
    /\ Len(results) >= 2
    /\ \E i, j \in 1..Len(results) :
          results[i].status = "error" /\ results[j].status = "converted"

\* the document's world, read without running scrape_pdf
HasBlackInk(t) == \E i \in 1..Len(t) : t[i] # " "
PrimaryUsable(env) == PyPDF2 /\ ~env.primary.raises /\ HasBlackInk(env.primary.text)
ExistingAt(env) ==
    {i \in 1..Len(possible_txt_paths) : env.txt[possible_txt_paths[i]].kind # "missing"}
Lowest(S) == CHOOSE i \in S : \A j \in S : i <= j
NoRecoverableText(env) == ~PrimaryUsable(env) /\ ExistingAt(env) = {}
FallbackUnreadable(env) ==
    /\ ~PrimaryUsable(env)
    /\ ExistingAt(env) # {}
    /\ env.txt[possible_txt_paths[Lowest(ExistingAt(env))]].kind = "unreadable"
DocumentFailed(h) ==
    \/ NoRecoverableText(h.env)
    \/ FallbackUnreadable(h.env)
    \/ h.sink \in {"raises", "failure", "nondict"}

\* C2: in both workflows a failing document is recorded as one error entry
\* with a message and the loop goes on: at the return every discovered
\* document has its entry, tagged error exactly when that document failed;
\* with one document without text among N, N-1 entries are successes.
C2_FailureIsolated ==
    (pc = "done" /\ reported.made) =>
        /\ Len(results) = Len(pdf_files)
        /\ Len(hist) = Len(pdf_files)
        /\ \A i \in 1..Len(results) :
              /\ results[i].file = pdf_files[i].name
              /\ results[i].status = "error" <=> DocumentFailed(hist[i])
              /\ results[i].status = "error" => results[i].error # None
        /\ (/\ Cardinality({i \in 1..Len(hist) : NoRecoverableText(hist[i].env)}) = 1
            /\ \A i \in 1..Len(hist) :
                  DocumentFailed(hist[i]) => NoRecoverableText(hist[i].env))
           => /\ CountStatus(results, "error") = 1
              /\ reported.success = Len(pdf_files) - 1

C2_Witness ==
    /\ pc = "done"
    /\ workflow = "pipeline"
    /\ Len(results) = 2
    /\ NoRecoverableText(hist[1].env)
    /\ results[1].status = "error"
    /\ results[2].status = "uploaded"
    /\ reported.success = 1

\* C3: when run_pipeline returns, every PDF that segregate_files moved has
\* exactly one result, and there are as many results as PDFs counted.
C3_ClassifiedAreProcessed ==
    (Returned("pipeline") /\ classified.made) =>
        /\ Len(results) = classified.pdf_count
        /\ \A n \in classified.moved_pdfs :
              /\ Cardinality(EntriesFor(n)) = 1
              /\ \A i \in EntriesFor(n) : results[i].status \in {"uploaded", "error"}

SuccessTag == IF workflow = "convert" THEN "converted" ELSE "uploaded"

\* C4: the reported counts are the numbers of success and error entries of
\* the result list and add up to the number of discovered documents; the
\* running counters of the convert loop agree with the list at every step.
C4_CountsMatchResults ==
    /\ reported.made =>
          /\ reported.success = CountStatus(results, SuccessTag)
          /\ reported.errors = CountStatus(results, "error")
          /\ reported.success + reported.errors = Len(pdf_files)
    /\ (workflow = "convert" /\ pc \in {"loop", "done"}) =>
          /\ successful = CountStatus(results, "converted")
          /\ failed = CountStatus(results, "error")

C4_Witness ==
    /\ reported.made
    /\ workflow = "convert"
    /\ reported.success >= 1
    /\ reported.errors >= 1
    /\ \E i \in 1..Len(hist) : hist[i].sink = "raises"

(***************************************************************************)
(* Properties of scrape_pdf (checked under SpecScrape)                     *)
(***************************************************************************)
\* C8: a record is returned only for text that is neither empty nor
\* whitespace only, from the PDF or from a fallback file.
C8_SuccessTextNotBlank ==
    (call.made /\ call.out.ok) => HasBlackInk(call.out.text)

\* C9: when the primary extraction gives no usable text the candidates are
\* probed in declared order and only the first existing one is read; when
\* it gives text no candidate is probed or read.
C9_FirstExistingFallbackRead ==
    call.made =>
        LET env == call.env
            out == call.out
        IN  /\ PrimaryUsable(env) => out.probed = <<>> /\ out.read = <<>>
            /\ (~PrimaryUsable(env) /\ ExistingAt(env) = {}) =>
                  out.probed = possible_txt_paths /\ out.read = <<>>
            /\ (~PrimaryUsable(env) /\ ExistingAt(env) # {}) =>
                  /\ out.read = <<possible_txt_paths[Lowest(ExistingAt(env))]>>
                  /\ out.probed =
                        SubSeq(possible_txt_paths, 1, Lowest(ExistingAt(env)))

C9_Witness ==
    /\ call.made
    /\ PyPDF2
    /\ call.env.primary.raises
    /\ ExistingAt(call.env) = {2, 4}
    /\ call.out.read = <<possible_txt_paths[2]>>

\* C10: the no-text-source error is raised exactly when there is no usable
\* primary text and no candidate exists, and it names every candidate probed.
C10_NoTextSourceNamesAllProbed ==
    call.made =>
        /\ call.out.error = "ValueError" <=> NoRecoverableText(call.env)
        /\ call.out.error = "ValueError" => call.out.tried = call.out.probed

\* the while loop of lines 217-250 alone, iteration by iteration
TableIter ==
    /\ loop.i < Len(loop.lines)
    /\ LET st == TableStep(loop.lines, loop.i)
       IN  loop' = [loop EXCEPT
                      !.i = st.i,
                      !.items = @ \o st.item,
                      !.visited = @ \o <<loop.i>>
                                    \o [k \in 1..Cardinality(st.consumed) |-> loop.i + k],
                      !.consumed = @ \cup st.consumed,
                      !.read = @ \cup st.read]
    /\ UNCHANGED <<PyPDF2, call, fs, pc, workflow, pdf_files, idx, results,
                   successful, failed, reported, classified, hist, uploads,
                   text_content, invoice_data,
                   LIVEKIT_AVAILABLE, LIVEKIT_URL, LIVEKIT_API_KEY,
                   LIVEKIT_API_SECRET, _livekit_api, sent, response>>

InitTable ==
    /\ PyPDF2 = FALSE
    /\ call = NoCall
    /\ fs = [dirs |-> {}, files |-> {}]
    /\ pc = "idle"
    /\ workflow = None
    /\ pdf_files = <<>>
    /\ idx = 0
    /\ results = <<>>
    /\ successful = 0
    /\ failed = 0
    /\ reported = NotReported
    /\ classified = NotClassified
    /\ hist = <<>>
    /\ uploads = <<>>
    /\ text_content = <<>>
    /\ invoice_data = NoParse
    /\ loop \in {StartLoop(lines) : lines \in CellSeqs}
    /\ CallApiUnused

NextTable == TableIter

\* the loop runs until its condition fails
SpecTable == InitTable /\ [][NextTable]_vars /\ WF_vars(TableIter)

\* the call API after import, with any configuration
InitCall ==
    /\ PyPDF2 = FALSE
    /\ call = NoCall
    /\ fs = [dirs |-> {}, files |-> {}]
    /\ pc = "idle"
    /\ workflow = None
    /\ pdf_files = <<>>
    /\ idx = 0
    /\ results = <<>>
    /\ successful = 0
    /\ failed = 0
    /\ reported = NotReported
    /\ classified = NotClassified
    /\ hist = <<>>
    /\ uploads = <<>>
    /\ text_content = <<>>
    /\ invoice_data = NoParse
    /\ loop = StartLoop(<<>>)
    /\ LIVEKIT_AVAILABLE \in BOOLEAN
    /\ LIVEKIT_URL \in UrlValues
    /\ LIVEKIT_API_KEY \in KeyValues
    /\ LIVEKIT_API_SECRET \in SecretValues
    /\ _livekit_api = NoHandle
    /\ sent = <<>>
    /\ response = NoResponse

NextCall ==
    \/ Initiate
    \/ Status
    \/ Health

SpecCall == InitCall /\ [][NextCall]_vars

\* parse_invoice_data alone, on any text
InitParse ==
    /\ PyPDF2 = FALSE
    /\ call = NoCall
    /\ fs = [dirs |-> {}, files |-> {}]
    /\ pc = "idle"
    /\ workflow = None
    /\ pdf_files = <<>>
    /\ idx = 0
    /\ results = <<>>
    /\ successful = 0
    /\ failed = 0
    /\ reported = NotReported
    /\ classified = NotClassified
    /\ hist = <<>>
    /\ uploads = <<>>
    /\ text_content \in InvoiceTexts \cup ItemTexts
    /\ invoice_data = NoParse
    /\ loop = NoLoop
    /\ CallApiUnused

NextParse == Parse

SpecParse == InitParse /\ [][NextParse]_vars

(***************************************************************************)
(* Properties of parse_invoice_data (checked under SpecParse)              *)
(***************************************************************************)
\* the value Python's None takes in a field
Unknown(key) == IF key \in {"subtotal", "tax", "total"} THEN NoNumber ELSE None

\* the lines on which pattern k of the field matches
MatchLines(key, k) ==
    {i \in 1..Len(text_content) : MatchAt(patterns[key][k], text_content, i) # NoCap}

\* the patterns of the field that match somewhere in the text
MatchingPatterns(key) ==
    {k \in 1..Len(patterns[key]) : MatchLines(key, k) # {}}

\* every match of every total pattern
TotalMatches ==
    {[pos |-> i, group |-> MatchAt(patterns.total[k], text_content, i)] :
        k \in MatchingPatterns("total"), i \in 1..Len(text_content)}
    \ {[pos |-> i, group |-> NoCap] : i \in 1..Len(text_content)}

\* C5: total is taken from the match that lies furthest down the text among
\* the matches of all five patterns, whichever pattern found it.
C5_TotalFromLastPosition ==
    invoice_data.made =>
        IF TotalMatches = {} THEN invoice_data.data.total = NoNumber
        ELSE \E m \in TotalMatches :
                /\ \A n \in TotalMatches : n.pos <= m.pos
                /\ invoice_data.data.total = Float(RemoveCommas(m.group))

\* the token the cascade takes for the field: group(1) of the first match of
\* the lowest-index pattern that matches
WinningToken(key) ==
    LET k == Lowest(MatchingPatterns(key))
    IN  MatchAt(patterns[key][k], text_content, Lowest(MatchLines(key, k)))

\* C6: every scalar field but total takes the first match of the first
\* pattern, in declared order, that matches anywhere; a field none of whose
\* patterns matches is left null/unknown.
C6_FirstMatchingPatternWins ==
    invoice_data.made =>
        \A key \in ScalarKeys \ {"total"} :
            IF MatchingPatterns(key) = {}
            THEN invoice_data.data[key] = Unknown(key)
            ELSE invoice_data.data[key] =
                    Converted(key, WinningToken(key), Unknown(key))

\* Supporting C6: with the default the code declares for the field (lines
\* 75-90) in place of null, the cascade statement holds for every field.
CascadeFirstMatchOrDefault ==
    invoice_data.made =>
        \A key \in ScalarKeys \ {"total"} :
            IF MatchingPatterns(key) = {}
            THEN invoice_data.data[key] = DefaultInvoiceData[key]
            ELSE invoice_data.data[key] =
                    Converted(key, WinningToken(key), DefaultInvoiceData[key])

\* C7: payment_completed is true for the tokens true and paid, false for
\* false, overdue and unpaid, and otherwise unknown, a third value.
C7_PaymentCompletedTriState ==
    invoice_data.made =>
        LET got == invoice_data.data.payment_completed
            key == "payment_completed"
        IN  IF MatchingPatterns(key) = {} THEN got \notin {"True", "False"}
            ELSE LET token == LowerToken(WinningToken(key))
                 IN  /\ token \in {"true", "paid"} => got = "True"
                     /\ token \in {"false", "overdue", "unpaid"} => got = "False"
                     /\ token \notin {"true", "paid", "false", "overdue", "unpaid"}
                           => got \notin {"True", "False"}

(***************************************************************************)
(* Segregation                                                             *)
(***************************************************************************)
\* the entries of the source top level whose extension is ext in any case,
\* and that are neither hidden nor directories
TopLevelDocs(f, exts) ==
    {e \in f.files : e.dir = SRC /\ ~e.name.hidden /\ ~e.name.isdir
                                 /\ e.name.ext \in exts}

At(e, d) == [dir |-> d, name |-> e.name]

\* C11: a call of segregate_files that returns has moved every top-level,
\* non-hidden, non-directory .txt file to the text archive and every such
\* .pdf file to the document archive, has left every other entry (other
\* extension, hidden, directory, inside a subdirectory or an archive) where
\* it was, and returns the numbers of text files and of PDFs it moved.
C11_SegregateMovesExactlyDocuments ==
    [][(pc = "idle" /\ workflow' = "segregate" /\ pc' = "done") =>
          LET txts == TopLevelDocs(fs, {"txt"})
              pdfs == TopLevelDocs(fs, {"pdf", "PDF"})
              rest == fs.files \ (txts \cup pdfs)
          IN  /\ fs'.files = rest \cup {At(e, TEXT_DATA) : e \in txts}
                                  \cup {At(e, DATA_2) : e \in pdfs}
              /\ \A e \in txts \cup pdfs : e \notin fs'.files
              /\ rest \subseteq fs'.files
              /\ classified'.txt_count = Cardinality(txts)
              /\ classified'.pdf_count = Cardinality(pdfs)]_vars

\* a run that moved a text file and a PDF and left something behind
C11_Witness ==
    /\ workflow = "segregate"
    /\ pc = "done"
    /\ classified.txt_count = 1
    /\ classified.pdf_count = 1
    /\ \E e \in fs.files : e.dir \in {SRC, SUB}
    /\ \E e \in fs.files : e.dir = TEXT_DATA
    /\ \E e \in fs.files : e.dir = DATA_2

\* C21: segregate_files never loses a file: after a run every file that was
\* at the source top level or already in an archive is still there exactly
\* once, so a moved file never replaces a file of the same name that an
\* earlier run left in the archive.
C21_SegregateLosesNoFile ==
    [][(pc = "idle" /\ workflow' = "segregate" /\ pc' = "done") =>
          Cardinality(fs'.files) = Cardinality(fs.files)]_vars

\* the directory a workflow needs before it does anything
MissingSource(f, w) ==
    \/ w = "convert" /\ ~Exists(f, DATA_2)
    \/ w \in {"pipeline", "segregate"} /\ ~Exists(f, SRC)

\* C12: when its source directory does not exist, each of segregate_files,
\* convert_pdfs_to_json and run_pipeline raises before any change of state:
\* no directory created, no file moved, no document processed, no upload,
\* no result entry, and nothing happens after the raise.
C12_MissingSourceRaisesFirst ==
    [][/\ (pc = "idle" /\ MissingSource(fs, workflow')) =>
             /\ pc' = "raised"
             /\ UNCHANGED <<fs, pdf_files, idx, results, successful, failed,
                            reported, classified, hist, uploads>>
       /\ pc # "raised"]_vars

\* a workflow that raised on a missing source directory
C12_Witness ==
    /\ pc = "raised"
    /\ MissingSource(fs, workflow)
    /\ fs.dirs = {}
    /\ workflow = "pipeline"

(***************************************************************************)
(* Processing order and uploads                                            *)
(***************************************************************************)
\* C16: in both workflows the documents are processed in lexicographic
\* filename order and the result list is in that order.
C16_ResultsInFilenameOrder ==
    \A i, j \in 1..Len(results) :
        i < j => /\ results[i].file.stem < results[j].file.stem
                 /\ results[i].file = pdf_files[i].name

\* the document's record was built: scrape_pdf found a text it could read
RecordBuilt(h) == ~NoRecoverableText(h.env) /\ ~FallbackUnreadable(h.env)

RECURSIVE BuiltNames(_, _)
BuiltNames(hs, files) ==
    IF hs = <<>> THEN <<>>
    ELSE (IF RecordBuilt(Head(hs)) THEN <<Head(files).name>> ELSE <<>>)
         \o BuiltNames(Tail(hs), Tail(files))

\* C17: in run_pipeline the upload collaborator is called exactly once, with
\* that document's record, for every document whose record was built, and
\* never again; the document's result is uploaded exactly when the response
\* was the success acknowledgment, and one error entry otherwise.
C17_OneUploadPerRecord ==
    (workflow = "pipeline" /\ pc \in {"loop", "done"}) =>
        /\ Len(hist) = idx
        /\ Len(results) = idx
        /\ uploads = BuiltNames(hist, SubSeq(pdf_files, 1, idx))
        /\ \A i \in 1..idx :
              /\ results[i].status \in {"uploaded", "error"}
              /\ results[i].status = "uploaded"
                    <=> (RecordBuilt(hist[i]) /\ hist[i].sink = "success")

\* a run whose first upload raised and whose second succeeded
C17_Witness ==
    /\ workflow = "pipeline"
    /\ pc = "done"
    /\ Len(uploads) = 2
    /\ Len(results) = 2
    /\ hist[1].sink = "raises"
    /\ hist[2].sink = "success"
    /\ results[1].status = "error"
    /\ results[2].status = "uploaded"

(***************************************************************************)
(* The returned record (checked under SpecParse)                           *)
(***************************************************************************)
\* the field names of an InvoiceRecord
InvoiceRecordFields ==
    {"invoice_number", "order_number", "customer", "email", "order_date",
     "due_date", "subtotal", "tax", "total", "payment_completed",
     "payment_method", "transaction_id", "notes", "items", "filename",
     "source_path"}

\* C18: every record scrape_pdf returns has every InvoiceRecord field under
\* its key name, and a field no pattern extracted is present with null (an
\* empty sequence for items).
C18_RecordHasEveryField ==
    invoice_data.made =>
        \A key \in InvoiceRecordFields :
            /\ key \in DOMAIN invoice_data.record
            /\ (key \in ScalarKeys /\ MatchingPatterns(key) = {})
                  => invoice_data.record[key] = Unknown(key)

\* the captured string is not a number once its separators are removed
Unparsable(token) == Float(RemoveCommas(token)).none

\* C19: when the string captured for subtotal, tax or total is not a number
\* once its separators are removed, the field stays null, the call still
\* returns its record, and the other fields are extracted all the same.
C19_UnparsableNumberStaysNull ==
    invoice_data.made =>
        /\ \A key \in {"subtotal", "tax"} :
              MatchingPatterns(key) # {} =>
                 IF Unparsable(WinningToken(key))
                 THEN invoice_data.data[key] = NoNumber
                 ELSE invoice_data.data[key] = Float(RemoveCommas(WinningToken(key)))
        /\ (TotalMatches # {} /\ \A m \in TotalMatches : Unparsable(m.group))
              => invoice_data.data.total = NoNumber
        /\ MatchingPatterns("invoice_number") # {}
              => invoice_data.data.invoice_number = WinningToken("invoice_number")
        /\ invoice_data.record.filename = "1.pdf"

\* a text whose subtotal is a lone separator, with a tax and an invoice number
C19_Witness ==
    /\ invoice_data.made
    /\ MatchingPatterns("subtotal") # {}
    /\ Unparsable(WinningToken("subtotal"))
    /\ invoice_data.data.subtotal = NoNumber
    /\ invoice_data.data.total = NoNumber
    /\ invoice_data.data.tax = Number(700)
    /\ invoice_data.data.invoice_number = "INV-1-1"

(***************************************************************************)
(* Items (checked under SpecParse and SpecTable)                           *)
(***************************************************************************)
\* the row region of the text: the lines after the header row, up to the
\* Subtotal line
Region == TableMatch(text_content).lines

\* a description: a line that starts with a letter and has no currency symbol
IsDescriptionLine(v) == LooksLikeDescription(v)

\* the positions of the region where the cursor detects a description: a
\* description line without a header word in it
Detected == {k \in 1..Len(Region) : IsDescriptionLine(Region[k]) /\ ~HasHeaderWord(Region[k])}

\* the positions of the region that hold a description and are not the
\* column-header row
DescriptionRows == {k \in 1..Len(Region) : IsDescriptionLine(Region[k]) /\ Region[k] # HeaderRow}

\* the members of a set of positions, in ascending order
RECURSIVE Ascending(_)
Ascending(S) == IF S = {} THEN <<>> ELSE <<Least(S)>> \o Ascending(S \ {Least(S)})

\* the three cells stand, in order, on the three lines after position k
CompleteRow(k) ==
    /\ k + 3 <= Len(Region)
    /\ AllDigits(Region[k + 1])
    /\ HasDollar(Region[k + 2])
    /\ HasDollar(Region[k + 3])

\* C13: the list strategy runs only when the table strategy produced no
\* item; when the table produced at least one item the returned items are
\* the table's, one per detected description, and none comes from the list.
C13_ListOnlyWhenTableEmpty ==
    invoice_data.made =>
        LET items == invoice_data.data.items
        IN  IF Detected # {}
            THEN /\ Len(items) = Cardinality(Detected)
                 /\ \A j \in 1..Len(items) :
                       items[j].description = Region[Ascending(Detected)[j]]
            ELSE items = ListItems(text_content)

\* a text with an Items: list and a table that yields two items
C13_Witness ==
    /\ invoice_data.made
    /\ ListItems(text_content) # <<>>
    /\ Cardinality(Detected) = 2
    /\ Len(invoice_data.data.items) = 2

\* C14: in the table strategy every detected description emits exactly one
\* item; the item carries quantity, unit price and amount exactly when the
\* three lines after the description are a pure-digit quantity, a currency
\* unit price and a currency amount, in that order, and is the bare
\* description otherwise; a row that lacks one of them is not dropped and
\* the row after it is parsed as its own item.
C14_OneItemPerDetectedDescription ==
    (invoice_data.made /\ Detected # {}) =>
        LET items == invoice_data.data.items
            at == Ascending(Detected)
        IN  /\ Len(items) = Len(at)
            /\ \A j \in 1..Len(at) :
                  IF CompleteRow(at[j])
                  THEN items[j] = ItemString(Region[at[j]], Region[at[j] + 1],
                                             StripCurrency(Region[at[j] + 2]),
                                             StripCurrency(Region[at[j] + 3]))
                  ELSE items[j] = ItemString(Region[at[j]], None, None, None)

\* a row without its amount followed by another row
C14_Witness ==
    /\ invoice_data.made
    /\ Region = <<"Widget A", "3", "$10.00", "Gadget B">>
    /\ invoice_data.data.items = <<ItemString("Widget A", None, None, None),
                                   ItemString("Gadget B", None, None, None)>>

\* C15: every line of the row region that is a description and is not the
\* column-header row yields exactly one item, without limit and in document
\* order; only header rows are skipped; a text with no items region yields
\* no item.
C15_EveryDescriptionYieldsItem ==
    invoice_data.made =>
        LET items == invoice_data.data.items
            at == Ascending(DescriptionRows)
        IN  /\ TableMatch(text_content).found =>
                  /\ Len(items) >= Len(at)
                  /\ at # <<>> =>
                        /\ Len(items) = Len(at)
                        /\ \A j \in 1..Len(at) : items[j].description = Region[at[j]]
            /\ (~TableMatch(text_content).found
                   /\ LabelledAt(text_content, {"Items:"}) = {}) => items = <<>>

\* no repetition in a sequence
NoRepeat(q) == \A j, k \in 1..Len(q) : q[j] = q[k] => j = k

\* C20: the cursor of the table loop terminates and stays in bounds: the
\* index grows in every iteration, no line is read at an index at or past
\* the number of lines, every line is visited at most once, and a line the
\* lookahead consumed as quantity, price or amount is never a description.
C20_CursorAdvancesInBounds ==
    /\ [][loop'.i > loop.i]_vars
    /\ [](/\ loop.i <= Len(loop.lines)
          /\ \A k \in loop.read : k < Len(loop.lines)
          /\ NoRepeat(loop.visited)
          /\ \A j \in 1..Len(loop.visited) : loop.visited[j] < Len(loop.lines)
          /\ \A k \in loop.consumed : ~IsDescriptionLine(LineAt(loop.lines, k)))
    /\ <>(loop.i >= Len(loop.lines))

\* the loop finished on a complete row followed by a description
C20_Witness ==
    /\ Len(loop.lines) = 4
    /\ loop.i = 4
    /\ loop.consumed = {1, 2}
    /\ loop.visited = <<0, 1, 2, 3>>
    /\ Len(loop.items) = 2

\* the loop of the model, run step by step, builds what the call returns
TableLoopAgrees ==
    loop.i >= Len(loop.lines) => loop.items = TableLoop(loop.lines, 0)

(***************************************************************************)
(* The call API                                                            *)
(***************************************************************************)
\* the last handler call was initiate_call
Initiated == response.made /\ response.handler = "initiate_call"

\* the room-creation request was handed to requests.post
RoomRequested == \E j \in 1..Len(sent) : sent[j].to = "CreateRoom"

\* the request body was parsed and is a JSON object or null
BodyParsed == response.data.kind \in {"null", "empty", "object"}

\* the six guards, each read on the inputs of the call
BodyPresent == response.data.kind = "object"
EmailOrCustomerPresent ==
    response.data.email \notin {None, ""} \/ response.data.customer \notin {None, ""}
PhonePresent == response.data.phone_number \notin {None, ""}
HandleConfigured ==
    \/ ~response.before.none
    \/ /\ LIVEKIT_AVAILABLE
       /\ LIVEKIT_URL # "" /\ LIVEKIT_API_KEY # "" /\ LIVEKIT_API_SECRET # ""
ProfileFound ==
    response.reply.kind # "raises" /\ response.reply.profile.kind \notin {"null", "empty"}
ProfileIsObject == response.reply.profile.kind = "object"
UnpaidNotZero ==
    /\ response.reply.profile.unpaid # "missing"
    /\ ~(response.reply.profile.unpaid = "number" /\ response.reply.profile.n = 0)

AllGuardsPassed ==
    /\ BodyPresent /\ EmailOrCustomerPresent /\ PhonePresent
    /\ HandleConfigured /\ ProfileFound /\ ProfileIsObject /\ UnpaidNotZero

\* C22: initiate_call sends the room-creation request, and returns success,
\* only after the six guards passed in order (body, email or customer,
\* phone_number, LiveKit handle, customer profile, unpaid count); the first
\* guard that fails decides the status (400, 400, 400, 500, 404, 400) and
\* then no room-creation request is sent.
C22_GuardsBeforeRoomRequest ==
    Initiated =>
      /\ RoomRequested <=> AllGuardsPassed
      /\ response.out.success => RoomRequested
      /\ BodyParsed =>
            /\ ~BodyPresent => response.out.status = 400
            /\ (BodyPresent /\ ~EmailOrCustomerPresent) => response.out.status = 400
            /\ (BodyPresent /\ EmailOrCustomerPresent /\ ~PhonePresent)
                  => response.out.status = 400
            /\ (BodyPresent /\ EmailOrCustomerPresent /\ PhonePresent
                  /\ ~HandleConfigured) => response.out.status = 500
            /\ (BodyPresent /\ EmailOrCustomerPresent /\ PhonePresent
                  /\ HandleConfigured /\ ~ProfileFound) => response.out.status = 404
            /\ (BodyPresent /\ EmailOrCustomerPresent /\ PhonePresent
                  /\ HandleConfigured /\ ProfileFound /\ ProfileIsObject
                  /\ ~UnpaidNotZero) => response.out.status = 400

\* every guard passed, the room request was sent and the call succeeded
C22_Witness ==
    /\ Initiated
    /\ AllGuardsPassed
    /\ RoomRequested
    /\ response.out.success
    /\ response.out.status = 200

\* C23: whenever initiate_call returns success, the room was created: the
\* CreateRoom request was sent and the server answered it with status 200
\* before the response was built.
C23_SuccessMeansRoomCreated ==
    (Initiated /\ response.out.success) =>
        /\ RoomRequested
        /\ response.create.kind = "answered"
        /\ response.create.status_code = 200

\* the last handler call was call_status
StatusAsked == response.made /\ response.handler = "call_status"

\* C24: with LiveKit configured and a room name given, call_status answers
\* 200 with the room's name when the room exists, 404 when it does not,
\* and 500 only when listing the rooms fails.
C24_StatusReflectsRoom ==
    (/\ StatusAsked
     /\ ~_livekit_api.none
     /\ response.room_name \notin {None, ""}) =>
        /\ (response.world.lookup = "ok" /\ response.room_name \in response.world.rooms)
              => (response.out.status = 200 /\ response.out.room_name = response.room_name)
        /\ (response.world.lookup = "ok" /\ response.room_name \notin response.world.rooms)
              => response.out.status = 404
        /\ response.out.status = 500 => response.world.lookup = "raises"

====
